---- MODULE Spec2Model ----
(***************************************************************************)
(* Model of the storage-proof generator: the block-header RLP encoder      *)
(* (core/rlp-encoder.ts) and the proof assembler (core/proof-generator.ts, *)
(* held in src/src/node/cli.ts lines 161-363).                             *)
(*                                                                         *)
(* Strings are sequences of one-character strings, so that prefix          *)
(* stripping, padding and hex formatting are computed, not assumed.        *)
(* JavaScript values are tagged records: undefined, null, bigint, string.  *)
(***************************************************************************)
EXTENDS Integers, Sequences, FiniteSets, TLC

(***************************************************************************)
(* JavaScript values                                                       *)
(***************************************************************************)
Undef == [t |-> "undefined"]

Null == [t |-> "null"]

Big(n) == [t |-> "bigint", v |-> n]

Str(s) == [t |-> "string", s |-> s]

\* a normal completion carrying a value / an abrupt completion (throw)
Ok(x) == [ok |-> TRUE, val |-> x]

Throw(e) == [ok |-> FALSE, err |-> e]

\* JavaScript ToBoolean: undefined, null, 0n and "" are falsy
Truthy(x) ==
  CASE x.t = "undefined" -> FALSE
    [] x.t = "null" -> FALSE
    [] x.t = "bigint" -> x.v # 0
    [] x.t = "string" -> x.s # <<>>

\* an object is its list of <<key, value>> properties in insertion order
HasKey(obj, k) == \E i \in 1..Len(obj) : obj[i][1] = k

\* property read obj.k : undefined when the object has no such property
Get(obj, k) ==
  IF HasKey(obj, k)
  THEN obj[CHOOSE i \in 1..Len(obj) : obj[i][1] = k][2]
  ELSE Undef

(***************************************************************************)
(* Hex strings and bytes                                                   *)
(***************************************************************************)
HexDigits == <<"0", "1", "2", "3", "4", "5", "6", "7",
               "8", "9", "a", "b", "c", "d", "e", "f">>

UpperDigits == <<"0", "1", "2", "3", "4", "5", "6", "7",
                 "8", "9", "A", "B", "C", "D", "E", "F">>

\* the value of each hexadecimal digit, in either case
DigitValue ==
  [ch \in {HexDigits[i] : i \in 1..16} \cup {UpperDigits[i] : i \in 1..16} |->
     (CHOOSE i \in 1..16 : HexDigits[i] = ch \/ UpperDigits[i] = ch) - 1]

IsHexChar(ch) == ch \in DOMAIN DigitValue

IsDecChar(ch) == ch \in DOMAIN DigitValue /\ DigitValue[ch] < 10 /\ ch = HexDigits[DigitValue[ch] + 1]

HexVal(ch) == DigitValue[ch]

HasPrefix0x(s) == Len(s) >= 2 /\ s[1] = "0" /\ s[2] = "x"

\* the same hex digits in upper case
UpperOf(s) == [i \in 1..Len(s) |-> UpperDigits[DigitValue[s[i]] + 1]]

\* the characters of n in base b, most significant first (n > 0)
RECURSIVE DigitsOf(_, _)
DigitsOf(n, b) ==
  IF n = 0 THEN <<>> ELSE DigitsOf(n \div b, b) \o <<HexDigits[(n % b) + 1]>>

\* BigInt.prototype.toString(16)
toString16(n) == IF n = 0 THEN <<"0">> ELSE DigitsOf(n, 16)

\* the value of the first n digits of a digit string in base b
RECURSIVE ParsePrefix(_, _, _)
ParsePrefix(s, n, b) ==
  IF n = 0 THEN 0 ELSE ParsePrefix(s, n - 1, b) * b + HexVal(s[n])

\* the value of a digit string in base b
ParseDigits(s, b) == ParsePrefix(s, Len(s), b)

\* the BigInt() conversion: bigint unchanged, StringToBigInt for strings,
\* TypeError for undefined and null, SyntaxError for an unparsable string
BigInt(x) ==
  CASE x.t = "bigint" -> Ok(x.v)
    [] x.t = "string" ->
         IF x.s = <<>> THEN Ok(0)
         ELSE IF HasPrefix0x(x.s)
           THEN IF Len(x.s) > 2 /\ \A i \in 3..Len(x.s) : IsHexChar(x.s[i])
                THEN Ok(ParseDigits(SubSeq(x.s, 3, Len(x.s)), 16))
                ELSE Throw("SyntaxError")
           ELSE IF \A i \in 1..Len(x.s) : IsDecChar(x.s[i])
                THEN Ok(ParseDigits(x.s, 10))
                ELSE Throw("SyntaxError")
    [] OTHER -> Throw("TypeError")

\* viem hexToBytes: strip 0x, left-pad to even length, one byte per pair
PairsToBytes(s) ==
  [i \in 1..(Len(s) \div 2) |-> HexVal(s[2 * i - 1]) * 16 + HexVal(s[2 * i])]

hexToBytes(hex) ==
  LET body == IF HasPrefix0x(hex) THEN SubSeq(hex, 3, Len(hex)) ELSE hex
      even == IF Len(body) % 2 = 0 THEN body ELSE <<"0">> \o body
  IN PairsToBytes(even)

\* viem bytesToHex: 0x and two lowercase digits per byte
BytesToDigits(bs) ==
  [i \in 1..(2 * Len(bs)) |->
     IF i % 2 = 1 THEN HexDigits[(bs[(i + 1) \div 2] \div 16) + 1]
     ELSE HexDigits[(bs[i \div 2] % 16) + 1]]

bytesToHex(bs) == <<"0", "x">> \o BytesToDigits(bs)

\* pad on the left with "0" characters to n characters
PadLeft(s, n) ==
  IF Len(s) >= n THEN s
  ELSE [i \in 1..n |-> IF i <= n - Len(s) THEN "0" ELSE s[i - (n - Len(s))]]

\* viem toHex(bigint): minimal digits, no padding
toHex(n) == <<"0", "x">> \o toString16(n)

\* viem toHex(bigint, { size }): left-padded to size bytes
toHexSized(n, size) == <<"0", "x">> \o PadLeft(toString16(n), 2 * size)

\* viem hexToBigInt, the inverse the node applies to a block parameter
hexToBigInt(hex) == ParseDigits(SubSeq(hex, 3, Len(hex)), 16)

(***************************************************************************)
(* Library primitives the code calls: RLP and keccak-256                   *)
(***************************************************************************)
IsHex(hex) == HasPrefix0x(hex) /\ \A i \in 3..Len(hex) : IsHexChar(hex[i])

\* big-endian bytes of a length n > 0
RECURSIVE LengthBytes(_)
LengthBytes(n) ==
  IF n = 0 THEN <<>> ELSE LengthBytes(n \div 256) \o <<n % 256>>

\* RLP of one byte string
RlpBytes(bs) ==
  IF Len(bs) = 1 /\ bs[1] < 128 THEN bs
  ELSE IF Len(bs) <= 55 THEN <<128 + Len(bs)>> \o bs
  ELSE <<183 + Len(LengthBytes(Len(bs)))>> \o LengthBytes(Len(bs)) \o bs

RECURSIVE RlpConcat(_)
RlpConcat(items) ==
  IF items = <<>> THEN <<>>
  ELSE RlpBytes(hexToBytes(items[1])) \o RlpConcat(Tail(items))

\* RLP of a list whose payload is the concatenated item encodings
RlpList(payload) ==
  IF Len(payload) <= 55 THEN <<192 + Len(payload)>> \o payload
  ELSE <<247 + Len(LengthBytes(Len(payload)))>> \o LengthBytes(Len(payload)) \o payload

\* viem toRlp on a flat list of hex strings; a non-hex item is rejected
toRlp(items) ==
  IF \A i \in 1..Len(items) : IsHex(items[i])
  THEN Ok(bytesToHex(RlpList(RlpConcat(items))))
  ELSE Throw("InvalidHexValueError")

\* the items of an RLP list encoding, each as its encoded bytes; used to
\* read back what toRlp wrote (short items and short lists only)
RECURSIVE RlpSplit(_)
RlpSplit(payload) ==
  IF payload = <<>> THEN <<>>
  ELSE LET n == IF payload[1] < 128 THEN 1 ELSE 1 + (payload[1] - 128)
       IN <<SubSeq(payload, 1, n)>> \o RlpSplit(SubSeq(payload, n + 1, Len(payload)))

RlpItemsOf(hex) ==
  LET bs == hexToBytes(hex)
      skip == IF bs[1] <= 247 THEN 1 ELSE 1 + (bs[1] - 247)
  IN RlpSplit(SubSeq(bs, skip + 1, Len(bs)))

\* keccak-256 stands as a fixed digest function of the bytes; the digest is
\* narrowed to one byte, so distinct inputs may collide
RECURSIVE Digest(_, _)
Digest(bs, n) ==
  IF n = 0 THEN Len(bs) ELSE (Digest(bs, n - 1) * 31 + bs[n] + 7) % 256

\* viem keccak256(hex): lowercase 0x-hex of the digest; a value that is
\* not a string (accountProof[0] of an empty list) is rejected by the library
keccak256(x) ==
  IF x.t = "string" /\ IsHex(x.s)
  THEN Ok(bytesToHex(<<Digest(hexToBytes(x.s), Len(hexToBytes(x.s)))>>))
  ELSE Throw("Error")

(***************************************************************************)
(* core/rlp-encoder.ts                                                     *)
(***************************************************************************)
\* faulty variant: leading zero digits dropped, as for an integer
cleanHexMinimized(hex) ==
  IF hex.t # "string" THEN Throw("TypeError")
  ELSE LET clean == IF HasPrefix0x(hex.s) THEN SubSeq(hex.s, 3, Len(hex.s)) ELSE hex.s
           kept == {i \in 1..Len(clean) : \E j \in 1..i : clean[j] # "0"}
           short == [i \in 1..Cardinality(kept) |-> clean[Len(clean) - Cardinality(kept) + i]]
       IN Ok(<<"0", "x">> \o (IF Len(short) % 2 = 0 THEN short ELSE <<"0">> \o short))

\* cleanHex(hex): strip a leading 0x, left-pad to even length, add 0x
cleanHex(hex) ==
  IF hex.t # "string" THEN Throw("TypeError")
  ELSE LET clean == IF HasPrefix0x(hex.s) THEN SubSeq(hex.s, 3, Len(hex.s)) ELSE hex.s
       IN Ok(<<"0", "x">> \o (IF Len(clean) % 2 = 0 THEN clean ELSE <<"0">> \o clean))

\* faulty variant: zero not special-cased, so it is written as the byte 0x00
encodeIntZeroByte(hex) ==
  LET value == BigInt(hex)
  IN IF ~value.ok THEN value ELSE cleanHex(Str(toString16(value.val)))

\* encodeInt(hex): zero is 0x, otherwise the minimal hex of the value
encodeInt(hex) ==
  LET value == BigInt(hex)
  IN IF ~value.ok THEN value
     ELSE IF value.val = 0 THEN Ok(<<"0", "x">>)
     ELSE cleanHex(Str(toString16(value.val)))

\* the 15 base fields: key and whether the field is integer-typed
BaseKeys == <<"parentHash", "sha3Uncles", "miner", "stateRoot",
              "transactionsRoot", "receiptsRoot", "logsBloom", "difficulty",
              "number", "gasLimit", "gasUsed", "timestamp", "extraData",
              "mixHash", "nonce">>

IntKeys == {"difficulty", "number", "gasLimit", "gasUsed", "timestamp",
            "baseFeePerGas", "blobGasUsed", "excessBlobGas"}

\* the optional trailing fields in the order the encoder tests them
TrailingKeys == <<"baseFeePerGas", "withdrawalsRoot", "blobGasUsed",
                  "excessBlobGas", "parentBeaconBlockRoot", "requestsHash">>

EncodeField(rpcBlock, k) ==
  IF k \in IntKeys THEN encodeInt(Get(rpcBlock, k)) ELSE cleanHex(Get(rpcBlock, k))

\* the test guarding the push of a trailing field: truthiness, except
\* excessBlobGas which is tested against undefined
TrailingPushed(rpcBlock, k) ==
  IF k = "excessBlobGas" THEN Get(rpcBlock, k) # Undef
  ELSE Truthy(Get(rpcBlock, k))

\* the keys whose encodings make up headerFields, in push order
PushedKeys(rpcBlock) ==
  BaseKeys \o SelectSeq(TrailingKeys, LAMBDA k : TrailingPushed(rpcBlock, k))

\* headerFields as built by encodeBlockHeaderToRlp, or the first throw
HeaderFields(rpcBlock) ==
  LET keys == PushedKeys(rpcBlock)
      enc == [i \in 1..Len(keys) |-> EncodeField(rpcBlock, keys[i])]
  IN IF \E i \in 1..Len(keys) : ~enc[i].ok
     THEN Throw(enc[CHOOSE i \in 1..Len(keys) :
                      ~enc[i].ok /\ \A j \in 1..(i - 1) : enc[j].ok].err)
     ELSE Ok([i \in 1..Len(keys) |-> enc[i].val])

encodeBlockHeaderToRlp(rpcBlock) ==
  LET fields == HeaderFields(rpcBlock)
  IN IF fields.ok THEN toRlp(fields.val) ELSE fields

(***************************************************************************)
(* Bounds and input domains                                                *)
(***************************************************************************)
MaxBlockNumber == 1

MaxSlot == 1

\* the generate calls in flight
Calls == {1}

RECURSIVE Rep(_, _)
Rep(ch, n) == IF n = 0 THEN <<>> ELSE <<ch>> \o Rep(ch, n - 1)

\* 20-byte account addresses
Accounts == {<<"0", "x">> \o Rep("1", 40), <<"0", "x">> \o Rep("a", 40)}

Endpoints == {"https://rpc.example.com"}

\* ProofGeneratorOptions
Requests ==
  [rpc : Endpoints, account : Accounts, slot : 0..MaxSlot,
   blockNumber : 0..MaxBlockNumber]

\* trie nodes a node may return in a proof
Node1 == <<"0", "x", "c", "2", "2", "0", "0", "1">>

Node2 == <<"0", "x", "c", "2", "3", "0", "0", "2">>

HashOf(hex) == keccak256(Str(hex)).val

H(a, b) == Str(<<"0", "x", a, b>>)

\* a block as viem's getBlock hands it over: hashes and byte fields are hex
\* strings, quantities are bigints
BaseBlock(bn) ==
  << <<"parentHash", H("0", "1")>>, <<"sha3Uncles", H("0", "2")>>,
     <<"miner", H("0", "3")>>, <<"stateRoot", Str(HashOf(Node1))>>,
     <<"transactionsRoot", H("0", "4")>>, <<"receiptsRoot", H("0", "5")>>,
     <<"logsBloom", H("0", "0")>>, <<"difficulty", Big(0)>>,
     <<"number", Big(bn)>>, <<"gasLimit", Big(255)>>,
     <<"gasUsed", Big(256)>>, <<"timestamp", Big(1000)>>,
     <<"extraData", Str(<<"0", "x">>)>>, <<"mixHash", H("0", "6")>>,
     <<"nonce", H("0", "0")>> >>

Without(obj, k) == SelectSeq(obj, LAMBDA p : p[1] # k)

LegacyBlock(bn) == BaseBlock(bn) \o << <<"baseFeePerGas", Null>> >>

LondonBlock(bn) == BaseBlock(bn) \o << <<"baseFeePerGas", Big(7)>> >>

\* a blob-upgrade block that carries no blobs: blobGasUsed and excessBlobGas 0
CancunEmptyBlock(bn) ==
  BaseBlock(bn) \o
  << <<"baseFeePerGas", Big(7)>>, <<"withdrawalsRoot", H("0", "7")>>,
     <<"blobGasUsed", Big(0)>>, <<"excessBlobGas", Big(0)>>,
     <<"parentBeaconBlockRoot", H("0", "8")>> >>

CancunBlock(bn) ==
  BaseBlock(bn) \o
  << <<"baseFeePerGas", Big(7)>>, <<"withdrawalsRoot", H("0", "7")>>,
     <<"blobGasUsed", Big(3)>>, <<"excessBlobGas", Big(5)>>,
     <<"parentBeaconBlockRoot", H("0", "8")>>, <<"requestsHash", H("0", "9")>> >>

\* a chain whose blocks have no mixHash
NoMixHashBlock(bn) == Without(BaseBlock(bn), "mixHash")

\* a rollup block exposing sendRoot
SendRootBlock(bn) == LondonBlock(bn) \o << <<"sendRoot", H("5", "e")>> >>

\* a rollup block whose sendRoot is the zero hash
ZeroSendRootBlock(bn) == LondonBlock(bn) \o << <<"sendRoot", H("0", "0")>> >>

BlockShapes(bn) ==
  {LegacyBlock(bn), LondonBlock(bn), CancunEmptyBlock(bn), CancunBlock(bn),
   NoMixHashBlock(bn), SendRootBlock(bn), ZeroSendRootBlock(bn)}

\* bytes a node may answer debug_getRawHeader with
RawFixed == <<"0", "x", "c", "3", "0", "1", "0", "2", "0", "3">>

\* the block hashes a node may report for a block of shape b: the hash of
\* either candidate encoding, each of which is a wrong hash for the other
HashChoices(b) ==
  {HashOf(RawFixed)}
    \cup (IF encodeBlockHeaderToRlp(b).ok
          THEN {HashOf(encodeBlockHeaderToRlp(b).val)} ELSE {})

\* the responses of getBlock for block bn
BlockResponses(bn) ==
  UNION {{b \o << <<"hash", Str(h)>> >> : h \in HashChoices(b)} : b \in BlockShapes(bn)}

\* what debug_getRawHeader may resolve with for a fetched block: header
\* bytes, or a null result where hex was expected
RawResponses(b) ==
  {Str(RawFixed), Null}
    \cup (IF encodeBlockHeaderToRlp(b).ok
          THEN {Str(encodeBlockHeaderToRlp(b).val)} ELSE {})

\* the ways a client call is rejected
TransportErrors == {"HttpRequestError", "TimeoutError"}

RawHeaderErrors == {"MethodNotFoundRpcError", "HttpRequestError", "InvalidResponseError"}

\* the responses of getProof: account-proof nodes, and one storage-proof
\* entry per requested key (or none)
StorageEntries(key) ==
  {[key |-> key, proof |-> <<Node2>>, value |-> Big(1)],
   [key |-> key, proof |-> <<Node2>>, value |-> Big(255)],
   [key |-> key, proof |-> <<>>, value |-> Big(0)]}

ProofResponses(key) ==
  [accountProof : {<<>>, <<Node1>>, <<Node1, Node2>>, <<Node2, Node1>>},
   storageProof : {<<>>} \cup {<<e>> : e \in StorageEntries(key)}]

(***************************************************************************)
(* State                                                                   *)
(***************************************************************************)
VARIABLES
  pc,              \* per call: where generateStorageProof is suspended
  options,         \* per call: the ProofGeneratorOptions it was given
  client,          \* per call: the client handle its RPC calls go through
  blockHeader,     \* per call: the block returned by getBlock
  rawHeader,       \* per call: what debug_getRawHeader resolved with, if it did
  rlpBlockHeader,  \* per call: the header encoding resolved
  method,          \* per call: how the encoding was resolved
  rawError,        \* per call: the rejection of debug_getRawHeader, if any
  proof,           \* per call: the response of getProof, if any
  outcome,         \* per call: the result returned or the error thrown
  rpcLog,          \* per call: the RPC calls issued, in order
  trace,           \* per call: the stages passed, in order
  entry,           \* per call: the entry point it was started through
  clients,         \* number of client handles created so far
  generator        \* the endpoint and handle bound by createProofGenerator

vars == <<pc, options, client, blockHeader, rawHeader, rlpBlockHeader, method,
          rawError, proof, outcome, rpcLog, trace, entry, clients, generator>>

NoGenerator == [rpc |-> "", client |-> 0]

NoError == [name |-> "none", from |-> "none", expected |-> Undef, computed |-> Undef]

\* an error object: its class, the call that threw it, and the two values
\* the mismatch errors carry
Error(name, from, expected, computed) ==
  [name |-> name, from |-> from, expected |-> expected, computed |-> computed]

Pending == [kind |-> "pending", result |-> <<>>, error |-> NoError]

Returned(r) == [kind |-> "result", result |-> r, error |-> NoError]

Thrown(e) == [kind |-> "error", result |-> <<>>, error |-> e]

\* everything but pc and blockHeader, as it is before any call has started
InitRest(cs) ==
  /\ options = [c \in cs |-> [rpc |-> "", account |-> <<>>, slot |-> 0, blockNumber |-> 0]]
  /\ client = [c \in cs |-> 0]
  /\ rawHeader = [c \in cs |-> <<>>]
  /\ rlpBlockHeader = [c \in cs |-> Undef]
  /\ method = [c \in cs |-> "none"]
  /\ rawError = [c \in cs |-> "none"]
  /\ proof = [c \in cs |-> <<>>]
  /\ outcome = [c \in cs |-> Pending]
  /\ rpcLog = [c \in cs |-> <<>>]
  /\ trace = [c \in cs |-> <<>>]
  /\ entry = [c \in cs |-> "none"]
  /\ clients = 0
  /\ generator = NoGenerator

InitCalls(cs) ==
  /\ pc = [c \in cs |-> "idle"]
  /\ blockHeader = [c \in cs |-> <<>>]
  /\ InitRest(cs)

Init == InitCalls(Calls)

(***************************************************************************)
(* core/types.ts: the error classes                                        *)
(***************************************************************************)
\* faulty variant: the two constructor arguments stored the wrong way round
BlockHashMismatchErrorSwapped(expected, computed) ==
  Error("BlockHashMismatchError", "generateStorageProof", computed, expected)

BlockHashMismatchError(expected, computed) ==
  Error("BlockHashMismatchError", "generateStorageProof", expected, computed)

StateRootMismatchError(expected, computed) ==
  Error("StateRootMismatchError", "generateStorageProof", expected, computed)

(***************************************************************************)
(* core/proof-generator.ts                                                 *)
(***************************************************************************)
\* an RPC call as the client sees it
RpcCall(m, cl, block, address, keys) ==
  [method |-> m, client |-> cl, block |-> block, address |-> address,
   storageKeys |-> keys]

\* client.getBlock({ blockNumber })
GetBlockCall(cl, opts) ==
  RpcCall("getBlock", cl, Big(opts.blockNumber), <<>>, <<>>)

\* client.request({ method: 'debug_getRawHeader', params: [toHex(blockNumber)] })
RawHeaderCall(cl, blockNumber) ==
  RpcCall("debug_getRawHeader", cl, Str(toHex(blockNumber)), <<>>, <<>>)

\* faulty variant: the storage key sent without the 32-byte padding
GetProofCallUnpadded(cl, account, slot, blockNumber) ==
  RpcCall("getProof", cl, Big(blockNumber), account, <<toHex(slot)>>)

\* client.getProof({ address, storageKeys: [toHex(slot, { size: 32 })], blockNumber })
GetProofCall(cl, account, slot, blockNumber) ==
  RpcCall("getProof", cl, Big(blockNumber), account, <<toHexSized(slot, 32)>>)

\* faulty variant: the node's bytes wrapped in one more RLP layer
RawHeaderResultReencoded(raw) ==
  Ok([rlpHeader |-> IF raw.t = "string" THEN Str(toRlp(<<raw.s>>).val) ELSE raw,
      method |-> "debug_getRawHeader"])

\* getRlpBlockHeader, try branch: the node's bytes as they came
RawHeaderResult(raw) ==
  Ok([rlpHeader |-> raw, method |-> "debug_getRawHeader"])

\* faulty variant: the fallback encodes the base fields only
ManualHeaderResultBaseOnly(header) ==
  LET rlpHeader == encodeBlockHeaderToRlp(SelectSeq(header,
                     LAMBDA q : \E i \in 1..Len(BaseKeys) : BaseKeys[i] = q[1]))
  IN IF rlpHeader.ok
     THEN Ok([rlpHeader |-> Str(rlpHeader.val), method |-> "manual"])
     ELSE Throw(Error(rlpHeader.err, "encodeBlockHeaderToRlp", Undef, Undef))

\* faulty variant: the fallback writes its hex digits in upper case
ManualHeaderResultUpper(header) ==
  LET rlpHeader == encodeBlockHeaderToRlp(header)
  IN IF rlpHeader.ok
     THEN Ok([rlpHeader |-> Str(<<"0", "x">> \o UpperOf(SubSeq(rlpHeader.val, 3, Len(rlpHeader.val)))),
              method |-> "manual"])
     ELSE Throw(Error(rlpHeader.err, "encodeBlockHeaderToRlp", Undef, Undef))

\* getRlpBlockHeader, catch branch: the manual encoding of the fetched block
ManualHeaderResult(header) ==
  LET rlpHeader == encodeBlockHeaderToRlp(header)
  IN IF rlpHeader.ok
     THEN Ok([rlpHeader |-> Str(rlpHeader.val), method |-> "manual"])
     ELSE Throw(Error(rlpHeader.err, "encodeBlockHeaderToRlp", Undef, Undef))

\* faulty variant: the comparison left out
VerifyBlockHashSkipped(header, rlpHeader) == NoError

\* the block-hash check of generateStorageProof: the error it throws, or
\* NoError when the hashes agree
VerifyBlockHash(header, rlpHeader) ==
  LET computedBlockHash == keccak256(rlpHeader)
  IN IF ~computedBlockHash.ok
     THEN Error(computedBlockHash.err, "keccak256", Undef, Undef)
     ELSE IF Str(computedBlockHash.val) # Get(header, "hash")
     THEN BlockHashMismatchError(Get(header, "hash"), Str(computedBlockHash.val))
     ELSE NoError

\* element i of a JavaScript array: undefined past the end
At(list, i) == IF i <= Len(list) THEN Str(list[i]) ELSE Undef

\* the object getStorageAndAccountProof returns from a getProof response,
\* its properties evaluated in order, or the first throw
StorageAndAccountProof(response) ==
  LET computedStateRoot == keccak256(At(response.accountProof, 1))
      rlpAccountProof == toRlp(response.accountProof)
      noEntry == response.storageProof = <<>>
      rlpStorageProof == toRlp(response.storageProof[1].proof)
      from == "getStorageAndAccountProof"
  IN IF ~computedStateRoot.ok
       THEN Throw(Error(computedStateRoot.err, from, Undef, Undef))
     ELSE IF ~rlpAccountProof.ok
       THEN Throw(Error(rlpAccountProof.err, from, Undef, Undef))
     ELSE IF noEntry
       THEN Throw(Error("TypeError", from, Undef, Undef))
     ELSE IF ~rlpStorageProof.ok
       THEN Throw(Error(rlpStorageProof.err, from, Undef, Undef))
     ELSE Ok([computedStateRoot |-> Str(computedStateRoot.val),
              rlpAccountProof |-> Str(rlpAccountProof.val),
              rlpStorageProof |-> Str(rlpStorageProof.val),
              slotValue |-> Str(toHex(response.storageProof[1].value.v))])

\* faulty variant: the comparison left out
VerifyStateRootSkipped(header, computedStateRoot) == NoError

\* the state-root check of generateStorageProof
VerifyStateRoot(header, computedStateRoot) ==
  IF computedStateRoot # Get(header, "stateRoot")
  THEN StateRootMismatchError(Get(header, "stateRoot"), computedStateRoot)
  ELSE NoError

\* faulty variant: sendRoot never copied
SendRootOfLeftOut(header) == <<>>

\* the sendRoot property added to the result when the block has a truthy one
SendRootOf(header) ==
  IF HasKey(header, "sendRoot") /\ Truthy(Get(header, "sendRoot"))
  THEN << <<"sendRoot", Get(header, "sendRoot")>> >>
  ELSE <<>>

\* the StorageProof object generateStorageProof builds
BuildResult(opts, header, rlpHeader, p) ==
  << <<"blockNumber", Str(toHex(Get(header, "number").v))>>,
     <<"blockHash", Get(header, "hash")>>,
     <<"stateRoot", Get(header, "stateRoot")>>,
     <<"account", Str(opts.account)>>,
     <<"slot", Str(toHexSized(opts.slot, 32))>>,
     <<"slotValue", p.slotValue>>,
     <<"rlpBlockHeader", rlpHeader>>,
     <<"rlpAccountProof", p.rlpAccountProof>>,
     <<"rlpStorageProof", p.rlpStorageProof>> >>
  \o SendRootOf(header)

(***************************************************************************)
(* Steps: one per entry point and per resumption after an awaited RPC call *)
(***************************************************************************)
\* createProofGenerator(rpc): binds the endpoint and creates a client
createProofGenerator(rpc) ==
  /\ generator = NoGenerator
  /\ clients' = clients + 1
  /\ generator' = [rpc |-> rpc, client |-> clients + 1]
  /\ UNCHANGED <<pc, options, client, blockHeader, rawHeader, rlpBlockHeader,
                 method, rawError, proof, outcome, rpcLog, trace, entry>>

\* generateStorageProof up to its first await: create a client, call getBlock
StartCall(c, opts, via) ==
  /\ pc[c] = "idle"
  /\ clients' = clients + 1
  /\ client' = [client EXCEPT ![c] = clients + 1]
  /\ options' = [options EXCEPT ![c] = opts]
  /\ entry' = [entry EXCEPT ![c] = via]
  /\ rpcLog' = [rpcLog EXCEPT ![c] = Append(@, GetBlockCall(clients + 1, opts))]
  /\ trace' = [trace EXCEPT ![c] = Append(@, "Initialized")]
  /\ pc' = [pc EXCEPT ![c] = "getBlock"]
  /\ UNCHANGED <<blockHeader, rawHeader, rlpBlockHeader, method, rawError, proof,
                 outcome, generator>>

\* a direct call of generateStorageProof(options)
generateStorageProof(c, opts) == StartCall(c, opts, "generateStorageProof")

\* generator.generate(options): generateStorageProof({ ...options, rpc })
generate(c, opts) ==
  /\ generator # NoGenerator
  /\ opts.rpc = generator.rpc
  /\ StartCall(c, opts, "generate")

\* the call ends by throwing e
Fail(c, e, stages) ==
  /\ outcome' = [outcome EXCEPT ![c] = Thrown(e)]
  /\ trace' = [trace EXCEPT ![c] = @ \o stages]
  /\ pc' = [pc EXCEPT ![c] = "done"]

\* faulty variant: the rejection is lost and the call keeps waiting
GetBlockRejectedUnsettled(c, names) ==
  /\ pc[c] = "getBlock"
  /\ pc' = [pc EXCEPT ![c] = "stalled"]
  /\ UNCHANGED <<options, client, blockHeader, rawHeader, rlpBlockHeader, method,
                 rawError, proof, outcome, rpcLog, trace, entry, clients, generator>>

\* getBlock rejects: the rejection leaves generateStorageProof as it is
GetBlockRejected(c, names) ==
  /\ pc[c] = "getBlock"
  /\ \E name \in names : Fail(c, Error(name, "getBlock", Undef, Undef), <<"Failed">>)
  /\ UNCHANGED <<options, client, blockHeader, rawHeader, rlpBlockHeader, method,
                 rawError, proof, rpcLog, entry, clients, generator>>

\* faulty variant: the fetched block kept in one place for every call that
\* is waiting for a block
GetBlockResolvedShared(c, headers) ==
  /\ pc[c] = "getBlock"
  /\ \E header \in headers :
       blockHeader' = [d \in DOMAIN blockHeader |->
                         IF pc[d] = "getBlock" THEN header ELSE blockHeader[d]]
  /\ rpcLog' = [rpcLog EXCEPT ![c] =
                  Append(@, RawHeaderCall(client[c], options[c].blockNumber))]
  /\ trace' = [trace EXCEPT ![c] = Append(@, "HeaderFetched")]
  /\ pc' = [pc EXCEPT ![c] = "getRawHeader"]
  /\ UNCHANGED <<options, client, rawHeader, rlpBlockHeader, method, rawError,
                 proof, outcome, entry, clients, generator>>

\* getBlock resolves: getRlpBlockHeader is entered and calls debug_getRawHeader
GetBlockResolved(c, headers) ==
  /\ pc[c] = "getBlock"
  /\ \E header \in headers : blockHeader' = [blockHeader EXCEPT ![c] = header]
  /\ rpcLog' = [rpcLog EXCEPT ![c] =
                  Append(@, RawHeaderCall(client[c], options[c].blockNumber))]
  /\ trace' = [trace EXCEPT ![c] = Append(@, "HeaderFetched")]
  /\ pc' = [pc EXCEPT ![c] = "getRawHeader"]
  /\ UNCHANGED <<options, client, rawHeader, rlpBlockHeader, method, rawError,
                 proof, outcome, entry, clients, generator>>

\* generateStorageProof from the return of getRlpBlockHeader to its next
\* await: the block-hash check, then the call of getProof
HeaderResolved(c, resolved) ==
  IF ~resolved.ok
  THEN /\ Fail(c, resolved.err, <<"Failed">>)
       /\ UNCHANGED <<rlpBlockHeader, method, rpcLog>>
  ELSE LET mismatch == VerifyBlockHash(blockHeader[c], resolved.val.rlpHeader)
       IN /\ rlpBlockHeader' = [rlpBlockHeader EXCEPT ![c] = resolved.val.rlpHeader]
          /\ method' = [method EXCEPT ![c] = resolved.val.method]
          /\ IF mismatch # NoError
             THEN /\ Fail(c, mismatch,
                       IF mismatch.name = "BlockHashMismatchError"
                       THEN <<"HeaderEncoded", "BlockHashMismatch">>
                       ELSE <<"HeaderEncoded", "Failed">>)
                  /\ UNCHANGED rpcLog
             ELSE /\ rpcLog' = [rpcLog EXCEPT ![c] =
                       Append(@, GetProofCall(client[c], options[c].account,
                                              options[c].slot, options[c].blockNumber))]
                  /\ trace' = [trace EXCEPT ![c] = @ \o <<"HeaderEncoded", "HashVerified">>]
                  /\ pc' = [pc EXCEPT ![c] = "getProof"]
                  /\ UNCHANGED outcome

\* faulty variant: bytes that do not hash to the reported hash are set aside
\* and the fetched block is encoded manually instead
RawHeaderResolvedWithFallback(c, rawHeaders) ==
  /\ pc[c] = "getRawHeader"
  /\ \E raw \in rawHeaders :
       /\ rawHeader' = [rawHeader EXCEPT ![c] = <<raw>>]
       /\ IF VerifyBlockHash(blockHeader[c], raw) = NoError
          THEN HeaderResolved(c, RawHeaderResult(raw))
          ELSE HeaderResolved(c, ManualHeaderResult(blockHeader[c]))
  /\ UNCHANGED <<options, client, blockHeader, rawError, proof, entry, clients,
                 generator>>

\* debug_getRawHeader resolves with the node's bytes
RawHeaderResolved(c, rawHeaders) ==
  /\ pc[c] = "getRawHeader"
  /\ \E raw \in rawHeaders :
       /\ rawHeader' = [rawHeader EXCEPT ![c] = <<raw>>]
       /\ HeaderResolved(c, RawHeaderResult(raw))
  /\ UNCHANGED <<options, client, blockHeader, rawError, proof, entry, clients,
                 generator>>

\* faulty variant: only an unsupported method falls back, other rejections propagate
RawHeaderRejectedUnlessUnsupported(c, names) ==
  /\ pc[c] = "getRawHeader"
  /\ \E name \in names :
       /\ rawError' = [rawError EXCEPT ![c] = name]
       /\ IF name = "MethodNotFoundRpcError"
          THEN HeaderResolved(c, ManualHeaderResult(blockHeader[c]))
          ELSE HeaderResolved(c, Throw(Error(name, "debug_getRawHeader", Undef, Undef)))
  /\ UNCHANGED <<options, client, blockHeader, rawHeader, proof, entry, clients,
                 generator>>

\* debug_getRawHeader rejects: the catch block encodes the fetched block
RawHeaderRejected(c, names) ==
  /\ pc[c] = "getRawHeader"
  /\ \E name \in names : rawError' = [rawError EXCEPT ![c] = name]
  /\ HeaderResolved(c, ManualHeaderResult(blockHeader[c]))
  /\ UNCHANGED <<options, client, blockHeader, rawHeader, proof, entry, clients,
                 generator>>

\* faulty variant: a rejected getProof is issued once more before giving up
GetProofRejectedRetried(c, names) ==
  /\ pc[c] = "getProof"
  /\ IF Len(rpcLog[c]) < 4
     THEN /\ rpcLog' = [rpcLog EXCEPT ![c] = Append(@, @[Len(@)])]
          /\ UNCHANGED <<pc, outcome, trace>>
     ELSE /\ \E name \in names :
               Fail(c, Error(name, "getProof", Undef, Undef), <<"Failed">>)
          /\ UNCHANGED rpcLog
  /\ UNCHANGED <<options, client, blockHeader, rawHeader, rlpBlockHeader, method,
                 rawError, proof, entry, clients, generator>>

\* getProof rejects
GetProofRejected(c, names) ==
  /\ pc[c] = "getProof"
  /\ \E name \in names : Fail(c, Error(name, "getProof", Undef, Undef), <<"Failed">>)
  /\ UNCHANGED <<options, client, blockHeader, rawHeader, rlpBlockHeader, method,
                 rawError, proof, rpcLog, entry, clients, generator>>

\* getProof resolves: getStorageAndAccountProof returns, then the state-root
\* check and the result
GetProofResolved(c, proofs) ==
  /\ pc[c] = "getProof"
  /\ \E response \in proofs :
       LET p == StorageAndAccountProof(response)
       IN /\ proof' = [proof EXCEPT ![c] = <<response>>]
          /\ IF ~p.ok
             THEN Fail(c, p.err, <<"Failed">>)
             ELSE LET mismatch ==
                        VerifyStateRoot(blockHeader[c], p.val.computedStateRoot)
                  IN IF mismatch # NoError
                     THEN Fail(c, mismatch, <<"StorageFetched", "StateRootMismatch">>)
                     ELSE /\ outcome' = [outcome EXCEPT ![c] =
                               Returned(BuildResult(options[c], blockHeader[c],
                                                    rlpBlockHeader[c], p.val))]
                          /\ trace' = [trace EXCEPT ![c] =
                               @ \o <<"StorageFetched", "RootVerified", "Complete">>]
                          /\ pc' = [pc EXCEPT ![c] = "done"]
  /\ UNCHANGED <<options, client, blockHeader, rawHeader, rlpBlockHeader, method,
                 rawError, rpcLog, entry, clients, generator>>

Next ==
  \/ \E rpc \in Endpoints : createProofGenerator(rpc)
  \/ \E c \in Calls, opts \in Requests : generateStorageProof(c, opts)
  \/ \E c \in Calls, opts \in Requests : generate(c, opts)
  \/ \E c \in Calls : GetBlockRejected(c, TransportErrors)
  \/ \E c \in Calls : GetBlockResolved(c, BlockResponses(options[c].blockNumber))
  \/ \E c \in Calls :
       RawHeaderResolved(c, RawResponses(Without(blockHeader[c], "hash")))
  \/ \E c \in Calls : RawHeaderRejected(c, RawHeaderErrors)
  \/ \E c \in Calls : GetProofRejected(c, TransportErrors)
  \/ \E c \in Calls :
       GetProofResolved(c, ProofResponses(toHexSized(options[c].slot, 32)))

Spec == Init /\ [][Next]_vars

(***************************************************************************)
(* Properties of generateStorageProof                                      *)
(***************************************************************************)
Returns(c) == outcome[c].kind = "result"

Throws(c) == outcome[c].kind = "error"

\* the header encoding has been resolved (by either method)
Resolved(c) == method[c] # "none"

ReportedHash(c) == Get(blockHeader[c], "hash")

\* C1: a result is returned only if keccak256 of the resolved rlpBlockHeader
\* equals the block hash reported by the header fetch, whichever method
\* resolved the encoding; the result's blockHash and rlpBlockHeader are that
\* hash and that encoding.
C1_ResultOnlyIfBlockHashMatches ==
  \A c \in Calls :
    Returns(c) =>
      LET computed == keccak256(rlpBlockHeader[c])
      IN /\ method[c] \in {"debug_getRawHeader", "manual"}
         /\ computed.ok
         /\ Str(computed.val) = ReportedHash(c)
         /\ Get(outcome[c].result, "blockHash") = ReportedHash(c)
         /\ Get(outcome[c].result, "rlpBlockHeader") = rlpBlockHeader[c]

\* a result whose encoding came from the manual encoder
C1_Witness ==
  \E c \in Calls : Returns(c) /\ method[c] = "manual"

\* C2: when keccak256 of the resolved encoding differs from the reported
\* block hash the call throws BlockHashMismatchError with expected = the
\* reported hash and computed = the local hash, both as they are, and
\* returns nothing.
C2_MismatchCarriesBothHashes ==
  \A c \in Calls :
    LET computed == keccak256(rlpBlockHeader[c])
    IN (Resolved(c) /\ computed.ok /\ Str(computed.val) # ReportedHash(c)) =>
         /\ pc[c] = "done"
         /\ Throws(c)
         /\ outcome[c].result = <<>>
         /\ outcome[c].error.name = "BlockHashMismatchError"
         /\ outcome[c].error.expected = ReportedHash(c)
         /\ outcome[c].error.computed = Str(computed.val)

\* a mismatch between two different hashes has been thrown
C2_Witness ==
  \E c \in Calls :
    /\ Resolved(c)
    /\ outcome[c].error.name = "BlockHashMismatchError"
    /\ outcome[c].error.expected # outcome[c].error.computed

\* the getProof response has arrived and its account proof has a first node
HasRootNode(c) == proof[c] # <<>> /\ proof[c][1].accountProof # <<>>

ComputedRoot(c) == Str(keccak256(Str(proof[c][1].accountProof[1])).val)

\* C3: after a passed block-hash check a result is returned only if
\* keccak256 of the first account-proof node equals the header's state root,
\* and when they differ the call throws StateRootMismatchError with
\* expected = the state root and computed = that keccak256 value.
C3_RootMismatchThrowsStateRootMismatch ==
  \A c \in Calls :
    HasRootNode(c) =>
      /\ Returns(c) => ComputedRoot(c) = Get(blockHeader[c], "stateRoot")
      /\ ComputedRoot(c) # Get(blockHeader[c], "stateRoot") =>
           /\ Throws(c)
           /\ outcome[c].error.name = "StateRootMismatchError"
           /\ outcome[c].error.expected = Get(blockHeader[c], "stateRoot")
           /\ outcome[c].error.computed = ComputedRoot(c)

DomainErrors ==
  {"BlockHashMismatchError", "StateRootMismatchError", "RpcMethodNotAvailableError"}

\* C4: a failing call fails with one of the domain error kinds or with a
\* transport error raised by an RPC call; nothing else leaves generate.
C4_OnlyDomainOrTransportErrors ==
  \A c \in Calls :
    Throws(c) =>
      \/ outcome[c].error.name \in DomainErrors
      \/ /\ outcome[c].error.name \in TransportErrors
         /\ outcome[c].error.from \in {"getBlock", "getProof"}

\* C5: when the raw-header call failed, the encoding that is hashed and put
\* in the result is the output of encodeBlockHeaderToRlp on the fetched block.
C5_FallbackEquivalence ==
  \A c \in Calls :
    (rawError[c] # "none" /\ Resolved(c)) =>
      LET manual == encodeBlockHeaderToRlp(blockHeader[c])
      IN /\ manual.ok
         /\ rlpBlockHeader[c] = Str(manual.val)
         /\ Returns(c) => Get(outcome[c].result, "rlpBlockHeader") = Str(manual.val)
         /\ outcome[c].error.name = "BlockHashMismatchError" =>
              outcome[c].error.computed = Str(keccak256(Str(manual.val)).val)

\* a result produced after the raw-header call failed, for a block that
\* has trailing fields
C5_Witness ==
  \E c \in Calls :
    /\ rawError[c] # "none"
    /\ Returns(c)
    /\ Truthy(Get(blockHeader[c], "baseFeePerGas"))

C7_RawHeaderUnmodified ==
  \A c \in Calls :
    rawHeader[c] # <<>> =>
      /\ method[c] = "debug_getRawHeader"
      /\ rlpBlockHeader[c] = rawHeader[c][1]
      /\ Returns(c) =>
           /\ Get(outcome[c].result, "rlpBlockHeader") = rawHeader[c][1]
           /\ ReportedHash(c) = Str(keccak256(rawHeader[c][1]).val)
      /\ outcome[c].error.name = "BlockHashMismatchError" =>
           outcome[c].error.computed = Str(keccak256(rawHeader[c][1]).val)

\* a result built from the node's raw bytes
C7_Witness ==
  \E c \in Calls : rawHeader[c] # <<>> /\ Returns(c)

Methods(c) == [i \in 1..Len(rpcLog[c]) |-> rpcLog[c][i].method]

\* C8: the header fetch, the raw-header call and the proof request are all
\* issued for the block number of the request, and the proof request carries
\* the request's account and exactly one storage key, the slot as a 32-byte
\* big-endian value.
C8_CallsPinnedToRequest ==
  \A c \in Calls :
    /\ \A i \in 1..Len(rpcLog[c]) :
         LET e == rpcLog[c][i]
         IN /\ e.method = "getBlock" => e.block = Big(options[c].blockNumber)
            /\ e.method = "debug_getRawHeader" =>
                 /\ e.block.t = "string"
                 /\ IsHex(e.block.s)
                 /\ Len(e.block.s) > 2
                 /\ hexToBigInt(e.block.s) = options[c].blockNumber
            /\ e.method = "getProof" =>
                 /\ e.block = Big(options[c].blockNumber)
                 /\ e.address = options[c].account
                 /\ Len(e.storageKeys) = 1
                 /\ IsHex(e.storageKeys[1])
                 /\ Len(e.storageKeys[1]) = 2 + 2 * 32
                 /\ hexToBigInt(e.storageKeys[1]) = options[c].slot
    /\ Returns(c) => Methods(c) = <<"getBlock", "debug_getRawHeader", "getProof">>

\* a finished call for a non-zero slot of a non-zero block that issued all
\* three calls
C8_Witness ==
  \E c \in Calls :
    /\ Returns(c)
    /\ options[c].slot = MaxSlot
    /\ options[c].blockNumber = MaxBlockNumber
    /\ Len(rpcLog[c]) = 3

\* lowercase hex with the 0x prefix and a whole number of bytes
IsCanonicalHex(x) ==
  /\ x.t = "string"
  /\ HasPrefix0x(x.s)
  /\ \A i \in 3..Len(x.s) : IsHexChar(x.s[i]) /\ x.s[i] = HexDigits[HexVal(x.s[i]) + 1]
  /\ Len(x.s) % 2 = 0

\* the hash and byte fields of a StorageProof
ByteFieldsOfResult ==
  {"blockHash", "stateRoot", "account", "slot", "slotValue", "rlpBlockHeader",
   "rlpAccountProof", "rlpStorageProof", "sendRoot"}

\* the value the node reported for the requested slot
StoredValue(c) == proof[c][1].storageProof[1].value

\* C13: every hash or byte field of a returned result is 0x-prefixed
\* lowercase hex of even length; slot is the requested slot as exactly 32
\* bytes, and a stored value of 1 gives slotValue 0x01.
C13_ResultFieldsCanonicalHex ==
  \A c \in Calls :
    Returns(c) =>
      /\ \A k \in ByteFieldsOfResult :
           HasKey(outcome[c].result, k) => IsCanonicalHex(Get(outcome[c].result, k))
      /\ Len(Get(outcome[c].result, "slot").s) = 2 + 2 * 32
      /\ hexToBigInt(Get(outcome[c].result, "slot").s) = options[c].slot
      /\ StoredValue(c) = Big(1) =>
           Get(outcome[c].result, "slotValue") = Str(<<"0", "x", "0", "1">>)

(***************************************************************************)
(* The encoder called on its own: encodeBlockHeaderToRlp is exported, and  *)
(* is applied here to headers of every trailing-field shape                *)
(***************************************************************************)
TrailingKeySet == {TrailingKeys[i] : i \in 1..Len(TrailingKeys)}

\* how a header carries each trailing field: not at all, with value zero
\* (quantities only) or with a non-zero value
TrailingShapes ==
  {f \in [TrailingKeySet -> {"absent", "zero", "set"}] :
     \A k \in TrailingKeySet : f[k] = "zero" => k \in IntKeys}

\* a quantity as the JSON-RPC response spells it
Quantity(v) == Str(toHex(v))

\* the value of field k in a header of the given kind: bigints as viem
\* formats a block, hex strings as RpcBlockHeader declares
TrailingValue(kind, k, how) ==
  IF k \in IntKeys
  THEN IF kind = "bigint" THEN Big(IF how = "zero" THEN 0 ELSE 7)
       ELSE Quantity(IF how = "zero" THEN 0 ELSE 7)
  ELSE H("0", "7")

TrailingPairs(kind, f) ==
  LET carried == SelectSeq(TrailingKeys, LAMBDA k : f[k] # "absent")
  IN [i \in 1..Len(carried) |-> <<carried[i], TrailingValue(kind, carried[i], f[carried[i]])>>]

BaseOfKind(kind) ==
  IF kind = "bigint" THEN BaseBlock(MaxBlockNumber)
  ELSE [i \in 1..Len(BaseKeys) |->
          LET q == BaseBlock(MaxBlockNumber)[i]
          IN IF q[2].t = "bigint" THEN <<q[1], Quantity(q[2].v)>> ELSE q]

Reverse(seq) == [i \in 1..Len(seq) |-> seq[Len(seq) + 1 - i]]

\* the properties in the order of the header layout, or the trailing ones
\* first and backwards
EncoderInputs ==
  {IF order = "layout"
   THEN BaseOfKind(kind) \o TrailingPairs(kind, f)
   ELSE Reverse(TrailingPairs(kind, f)) \o BaseOfKind(kind) :
     kind \in {"bigint", "string"}, f \in TrailingShapes,
     order \in {"layout", "reversed"}}

InitEncoder ==
  /\ pc = [c \in Calls |-> "encode"]
  /\ blockHeader \in [Calls -> EncoderInputs]
  /\ InitRest(Calls)

\* one call of encodeBlockHeaderToRlp(rpcBlock)
EncodeCall(c) ==
  /\ pc[c] = "encode"
  /\ LET rlp == encodeBlockHeaderToRlp(blockHeader[c])
     IN IF rlp.ok
        THEN /\ rlpBlockHeader' = [rlpBlockHeader EXCEPT ![c] = Str(rlp.val)]
             /\ outcome' = [outcome EXCEPT ![c] = Returned(<<>>)]
        ELSE /\ outcome' = [outcome EXCEPT ![c] =
                  Thrown(Error(rlp.err, "encodeBlockHeaderToRlp", Undef, Undef))]
             /\ UNCHANGED rlpBlockHeader
  /\ pc' = [pc EXCEPT ![c] = "done"]
  /\ UNCHANGED <<options, client, blockHeader, rawHeader, method, rawError, proof,
                 rpcLog, trace, entry, clients, generator>>

NextEncoder == \E c \in Calls : EncodeCall(c)

SpecEncoder == InitEncoder /\ [][NextEncoder]_vars

\* the header carries field k: the property is there with a value
Carries(header, k) == Get(header, k) # Undef /\ Get(header, k) # Null

CarriedKeys(header) == SelectSeq(TrailingKeys, LAMBDA k : Carries(header, k))

\* the RLP item a field must become: a quantity as its minimal big-endian
\* bytes, anything else as the bytes supplied
ItemOf(header, k) ==
  RlpBytes(IF k \in IntKeys THEN LengthBytes(BigInt(Get(header, k)).val)
           ELSE hexToBytes(Get(header, k).s))

ItemsOf(header, keys) == [i \in 1..Len(keys) |-> ItemOf(header, keys[i])]

\* C9: the encoded list is the 15 base fields in their order followed by the
\* trailing fields the header carries, in the fixed order, whatever the order
\* of the input's properties; so it has 15 items plus one per carried
\* trailing field.
C9_TrailingFieldsInFixedOrder ==
  \A c \in Calls :
    Returns(c) =>
      /\ RlpItemsOf(rlpBlockHeader[c].s)
           = ItemsOf(blockHeader[c], BaseKeys \o CarriedKeys(blockHeader[c]))
      /\ Len(RlpItemsOf(rlpBlockHeader[c].s)) = 15 + Len(CarriedKeys(blockHeader[c]))

\* the position in the encoded list of a carried trailing field
PositionOf(header, k) ==
  15 + Cardinality({i \in 1..Len(TrailingKeys) :
                      /\ Carries(header, TrailingKeys[i])
                      /\ i <= CHOOSE j \in 1..Len(TrailingKeys) : TrailingKeys[j] = k})

\* C10: a trailing field is encoded exactly when the header carries it,
\* whatever its value: a carried quantity equal to zero is encoded as the
\* empty-string item, and a field not carried is left out.
C10_PresenceNotValue ==
  \A c \in Calls :
    Returns(c) =>
      \A k \in TrailingKeySet :
        /\ Carries(blockHeader[c], k) <=> TrailingPushed(blockHeader[c], k)
        /\ (Carries(blockHeader[c], k) /\ k \in IntKeys
              /\ BigInt(Get(blockHeader[c], k)).val = 0) =>
             /\ PositionOf(blockHeader[c], k) <= Len(RlpItemsOf(rlpBlockHeader[c].s))
             /\ RlpItemsOf(rlpBlockHeader[c].s)[PositionOf(blockHeader[c], k)] = <<128>>

\* the header carries a trailing field without carrying an earlier one
HasGap(header) ==
  \E i \in 1..Len(TrailingKeys), j \in 1..Len(TrailingKeys) :
    i < j /\ ~Carries(header, TrailingKeys[i]) /\ Carries(header, TrailingKeys[j])

\* the items the encoder wrote after the 15 base fields
TrailingItems(c) ==
  LET items == RlpItemsOf(rlpBlockHeader[c].s)
  IN SubSeq(items, 16, Len(items))

MaxQuantity == 260

\* the quantities tried: every value up to the bound, and values around the
\* two- and three-byte boundaries
QuantityValues == (0..MaxQuantity) \cup {65535, 65536, 16777215, 16777216}

\* how a caller may spell the quantity v: a bigint (viem's getBlock), the
\* JSON-RPC quantity, or hex with leading zero digits
Spelled(v, spelling) ==
  CASE spelling = "bigint" -> Big(v)
    [] spelling = "quantity" -> Quantity(v)
    [] spelling = "padded" -> Str(<<"0", "x", "0", "0">> \o toString16(v))

Spellings == {"bigint", "quantity", "padded"}

\* a header carrying every integer-typed field with the value v
IntegerHeader(v, spelling) ==
  [i \in 1..Len(BaseKeys) |->
     IF BaseKeys[i] \in IntKeys THEN <<BaseKeys[i], Spelled(v, spelling)>>
     ELSE BaseBlock(0)[i]]
  \o << <<"baseFeePerGas", Spelled(v, spelling)>>,
        <<"blobGasUsed", Spelled(v, spelling)>>,
        <<"excessBlobGas", Spelled(v, spelling)>> >>

IntegerInputs ==
  {IntegerHeader(v, spelling) : v \in QuantityValues, spelling \in Spellings}

InitIntegers ==
  /\ pc = [c \in Calls |-> "encode"]
  /\ blockHeader \in [Calls -> IntegerInputs]
  /\ InitRest(Calls)

SpecIntegers == InitIntegers /\ [][NextEncoder]_vars

\* the integer a big-endian byte string stands for
RECURSIVE BytesToInt(_, _)
BytesToInt(bs, n) == IF n = 0 THEN 0 ELSE BytesToInt(bs, n - 1) * 256 + bs[n]

\* the byte string inside a short RLP string item
PayloadOf(item) ==
  IF Len(item) = 1 /\ item[1] < 128 THEN item ELSE SubSeq(item, 2, Len(item))

\* the place of key k among the fields the encoder wrote
IndexIn(keys, k) == CHOOSE i \in 1..Len(keys) : keys[i] = k

\* the byte string written for the integer-typed field k of an encoded header
IntBytesOf(c, k) ==
  PayloadOf(RlpItemsOf(rlpBlockHeader[c].s)[IndexIn(PushedKeys(blockHeader[c]), k)])

MaxBytes == 3

\* byte strings of up to MaxBytes bytes over a zero, a small and a large byte
RECURSIVE ShortByteStrings(_)
ShortByteStrings(n) ==
  IF n = 0 THEN {<<>>}
  ELSE ShortByteStrings(n - 1)
         \cup {Append(bs, b) : bs \in {x \in ShortByteStrings(n - 1) : Len(x) = n - 1},
                               b \in {0, 1, 171}}

\* a 20-byte address and a 32-byte hash, each starting with a zero byte
LongByteStrings ==
  {[i \in 1..20 |-> IF i = 1 THEN 0 ELSE 171], [i \in 1..32 |-> IF i < 3 THEN 0 ELSE 18]}

ByteStrings == ShortByteStrings(MaxBytes) \cup LongByteStrings

ByteForms == {"prefixed", "bare", "odd", "oddBare", "upper"}

\* a byte string can be written at odd length when its first digit is 0
HasForm(bs, form) ==
  form \in {"odd", "oddBare"} => (bs # <<>> /\ bs[1] < 16)

\* the hex a caller may supply for the bytes bs
SpelledBytes(bs, form) ==
  CASE form = "prefixed" -> <<"0", "x">> \o BytesToDigits(bs)
    [] form = "bare" -> BytesToDigits(bs)
    [] form = "odd" -> <<"0", "x">> \o Tail(BytesToDigits(bs))
    [] form = "oddBare" -> Tail(BytesToDigits(bs))
    [] form = "upper" -> <<"0", "x">> \o UpperOf(BytesToDigits(bs))

\* a header carrying every byte-string field with the bytes bs
BytesHeader(bs, form) ==
  [i \in 1..Len(BaseKeys) |->
     IF BaseKeys[i] \in IntKeys THEN BaseBlock(0)[i]
     ELSE <<BaseKeys[i], Str(SpelledBytes(bs, form))>>]
  \o << <<"withdrawalsRoot", Str(SpelledBytes(bs, form))>>,
        <<"parentBeaconBlockRoot", Str(SpelledBytes(bs, form))>>,
        <<"requestsHash", Str(SpelledBytes(bs, form))>> >>

BytesInputs ==
  UNION {{BytesHeader(bs, form) : form \in {f \in ByteForms : HasForm(bs, f)}} :
           bs \in ByteStrings}

InitBytes ==
  /\ pc = [c \in Calls |-> "encode"]
  /\ blockHeader \in [Calls -> BytesInputs]
  /\ InitRest(Calls)

SpecBytes == InitBytes /\ [][NextEncoder]_vars

\* the bytes a supplied hex string was written from
SuppliedBytes(hex) ==
  CHOOSE bs \in ByteStrings : \E form \in ByteForms :
    HasForm(bs, form) /\ SpelledBytes(bs, form) = hex

\* C12: every hash, address, bloom, extra-data, mixHash and nonce field is
\* written as exactly the bytes supplied: leading zero bytes stay, the 0x
\* prefix makes no difference, and odd-length hex counts as having one more
\* leading zero digit.
C12_ByteFieldsAsSupplied ==
  \A c \in Calls :
    pc[c] = "done" =>
      /\ Returns(c)
      /\ \A i \in 1..Len(PushedKeys(blockHeader[c])) :
           LET k == PushedKeys(blockHeader[c])[i]
           IN k \notin IntKeys =>
                RlpItemsOf(rlpBlockHeader[c].s)[i]
                  = RlpBytes(SuppliedBytes(Get(blockHeader[c], k).s))

\* a header whose byte fields are the two bytes 00 01, supplied as the three
\* digits 001 without prefix, has been encoded
C12_Witness ==
  \E c \in Calls :
    /\ Returns(c)
    /\ Get(blockHeader[c], "mixHash") = Str(<<"0", "0", "1">>)
    /\ RlpItemsOf(rlpBlockHeader[c].s)[IndexIn(BaseKeys, "mixHash")] = <<130, 0, 1>>

(***************************************************************************)
(* Further properties of generateStorageProof                              *)
(***************************************************************************)
\* C14: a returned result has a sendRoot exactly when the fetched block
\* carries one, and then it is the block's value unchanged.
C14_SendRootIffHeaderCarriesIt ==
  \A c \in Calls :
    Returns(c) =>
      /\ HasKey(outcome[c].result, "sendRoot") <=> Carries(blockHeader[c], "sendRoot")
      /\ HasKey(outcome[c].result, "sendRoot") =>
           Get(outcome[c].result, "sendRoot") = Get(blockHeader[c], "sendRoot")

\* a result for a block whose sendRoot is the zero hash
C14_Witness ==
  \E c \in Calls :
    /\ Returns(c)
    /\ Get(blockHeader[c], "sendRoot") = H("0", "0")
    /\ HasKey(outcome[c].result, "sendRoot")

\* how many times the call has issued the RPC method m
Issued(c, m) == Cardinality({i \in 1..Len(rpcLog[c]) : rpcLog[c][i].method = m})

\* C16: within one call each of the three RPC calls is issued at most once,
\* and a fatal failure ends the call at once: a rejected header fetch or
\* proof fetch is thrown as it is, and after a failure of the header fetch,
\* a block-hash mismatch, a failure of the proof fetch or a state-root
\* mismatch no RPC call beyond those already made is in the log.
C16_NoRetryFailFast ==
  \A c \in Calls :
    /\ \A m \in {"getBlock", "debug_getRawHeader", "getProof"} : Issued(c, m) <= 1
    /\ Throws(c) =>
         /\ pc[c] = "done"
         /\ outcome[c].error.from = "getBlock" =>
              /\ outcome[c].error.name \in TransportErrors
              /\ Methods(c) = <<"getBlock">>
         /\ outcome[c].error.name = "BlockHashMismatchError" =>
              Methods(c) = <<"getBlock", "debug_getRawHeader">>
         /\ outcome[c].error.from = "getProof" =>
              /\ outcome[c].error.name \in TransportErrors
              /\ Methods(c) = <<"getBlock", "debug_getRawHeader", "getProof">>
         /\ outcome[c].error.name = "StateRootMismatchError" =>
              Methods(c) = <<"getBlock", "debug_getRawHeader", "getProof">>

\* the proof fetch was rejected and the call ended with that rejection
C16_Witness ==
  \E c \in Calls :
    /\ Throws(c)
    /\ outcome[c].error = Error("TimeoutError", "getProof", Undef, Undef)
    /\ Issued(c, "getProof") = 1

\* C17: a call made through generator.generate issues every RPC call through
\* the client handle createProofGenerator created (the one getClient
\* returns), and creates no client of its own.
C17_GeneratorReusesItsClient ==
  \A c \in Calls :
    entry[c] = "generate" =>
      /\ client[c] = generator.client
      /\ \A i \in 1..Len(rpcLog[c]) : rpcLog[c][i].client = generator.client
      /\ clients = 1 + Cardinality({d \in Calls : entry[d] = "generateStorageProof"})

\* the stages of a call that completes
StageOrder ==
  <<"Initialized", "HeaderFetched", "HeaderEncoded", "HashVerified",
    "StorageFetched", "RootVerified", "Complete">>

ExitStages == {"BlockHashMismatch", "StateRootMismatch", "Failed"}

IsPrefix(t, full) == Len(t) <= Len(full) /\ \A i \in 1..Len(t) : t[i] = full[i]

Passed(c, stage) == \E i \in 1..Len(trace[c]) : trace[c][i] = stage

\* C18: the stages a call has passed are an initial part of the fixed order,
\* each at most once and none skipped, followed by at most one exit; the
\* raw-header call is in the log only once the header fetch has returned,
\* the proof request only once the block-hash check has passed, and a result
\* exists only once the state-root check has passed, after all seven stages.
C18_StagesInOrder ==
  \A c \in Calls :
    LET t == trace[c]
        n == Len(t)
    IN /\ \/ IsPrefix(t, StageOrder)
          \/ /\ n > 0 /\ t[n] \in ExitStages
             /\ IsPrefix(SubSeq(t, 1, n - 1), StageOrder)
             /\ t[n] = "BlockHashMismatch" => t[n - 1] = "HeaderEncoded"
             /\ t[n] = "StateRootMismatch" => t[n - 1] = "StorageFetched"
       /\ Issued(c, "debug_getRawHeader") > 0 =>
            Passed(c, "HeaderFetched") /\ blockHeader[c] # <<>>
       /\ Issued(c, "getProof") > 0 =>
            /\ Passed(c, "HashVerified")
            /\ ~Passed(c, "BlockHashMismatch")
            /\ Str(keccak256(rlpBlockHeader[c]).val) = ReportedHash(c)
       /\ Passed(c, "StorageFetched") => proof[c] # <<>>
       /\ Returns(c) <=> t = StageOrder
       /\ Returns(c) =>
            /\ HasRootNode(c)
            /\ ComputedRoot(c) = Get(blockHeader[c], "stateRoot")
       /\ (n > 0 /\ t[n] \in ExitStages) <=> Throws(c)

\* a call that has gone through all seven stages
C18_Witness ==
  \E c \in Calls : trace[c] = StageOrder /\ Len(rpcLog[c]) = 3 /\ pc[c] = "done"

\* the manual encoding of the fetched block hashes to the reported hash
ManualWouldMatch(c) ==
  LET manual == encodeBlockHeaderToRlp(blockHeader[c])
  IN manual.ok /\ Str(keccak256(Str(manual.val)).val) = ReportedHash(c)

\* C22: the manual encoder is used only when the raw-header call itself
\* failed; when that call returns bytes whose keccak256 is not the reported
\* block hash the call throws BlockHashMismatchError for those bytes and asks
\* for no proof, also when the manual encoding would have matched.
C22_NoFallbackAfterRawMismatch ==
  \A c \in Calls :
    /\ method[c] = "manual" => (rawError[c] # "none" /\ rawHeader[c] = <<>>)
    /\ (/\ rawHeader[c] # <<>>
        /\ rawHeader[c][1].t = "string"
        /\ Str(keccak256(rawHeader[c][1]).val) # ReportedHash(c)) =>
         /\ method[c] = "debug_getRawHeader"
         /\ rlpBlockHeader[c] = rawHeader[c][1]
         /\ Throws(c)
         /\ outcome[c].error.name = "BlockHashMismatchError"
         /\ outcome[c].error.computed = Str(keccak256(rawHeader[c][1]).val)
         /\ Issued(c, "getProof") = 0

\* the node's raw bytes did not hash to the reported hash although the
\* manual encoding does, and the call ended with the mismatch
C22_Witness ==
  \E c \in Calls :
    /\ rawHeader[c] = <<Str(RawFixed)>>
    /\ ManualWouldMatch(c)
    /\ outcome[c].error.name = "BlockHashMismatchError"

(***************************************************************************)
(* Two generate calls in flight at once, their RPC round trips interleaved *)
(* in every order                                                          *)
(***************************************************************************)
Pair == {1, 2}

\* two requests that differ in account, slot and block
PairRequests ==
  {r \in Requests :
     \/ r.account = <<"0", "x">> \o Rep("1", 40) /\ r.slot = 0 /\ r.blockNumber = 0
     \/ r.account = <<"0", "x">> \o Rep("a", 40) /\ r.slot = MaxSlot
          /\ r.blockNumber = MaxBlockNumber}

\* the blocks the node may answer with while two calls are in flight
PairBlocks(bn) ==
  {LondonBlock(bn) \o << <<"hash", Str(h)>> >> : h \in HashChoices(LondonBlock(bn))}

\* the proofs the node may answer with while two calls are in flight
PairProofs(key) ==
  {r \in ProofResponses(key) :
     /\ Len(r.accountProof) = 1
     /\ \A i \in 1..Len(r.storageProof) : r.storageProof[i].value = Big(1)}

InitPair == InitCalls(Pair)

NextPair ==
  \/ \E rpc \in Endpoints : createProofGenerator(rpc)
  \/ \E c \in Pair, opts \in PairRequests : generateStorageProof(c, opts)
  \/ \E c \in Pair, opts \in PairRequests : generate(c, opts)
  \/ \E c \in Pair : GetBlockRejected(c, {"HttpRequestError"})
  \/ \E c \in Pair : GetBlockResolved(c, PairBlocks(options[c].blockNumber))
  \/ \E c \in Pair :
       RawHeaderResolved(c, RawResponses(Without(blockHeader[c], "hash")))
  \/ \E c \in Pair : RawHeaderRejected(c, {"MethodNotFoundRpcError"})
  \/ \E c \in Pair : GetProofRejected(c, {"TimeoutError"})
  \/ \E c \in Pair :
       GetProofResolved(c, PairProofs(toHexSized(options[c].slot, 32)))

SpecPair == InitPair /\ [][NextPair]_vars

CallState(c) ==
  <<pc[c], options[c], client[c], blockHeader[c], rawHeader[c], rlpBlockHeader[c],
    method[c], rawError[c], proof[c], outcome[c], rpcLog[c], trace[c], entry[c]>>

\* the outcome of a finished call as its own request and the answers to its
\* own RPC calls determine it when the call runs alone
OutcomeAlone(c) ==
  IF blockHeader[c] = <<>>
  THEN Thrown(Error(outcome[c].error.name, "getBlock", Undef, Undef))
  ELSE LET resolved == IF rawHeader[c] # <<>> THEN RawHeaderResult(rawHeader[c][1])
                       ELSE ManualHeaderResult(blockHeader[c])
       IN IF ~resolved.ok THEN Thrown(resolved.err)
          ELSE LET mismatch == VerifyBlockHash(blockHeader[c], resolved.val.rlpHeader)
               IN IF mismatch # NoError THEN Thrown(mismatch)
                  ELSE IF proof[c] = <<>>
                    THEN Thrown(Error(outcome[c].error.name, "getProof", Undef, Undef))
                  ELSE LET p == StorageAndAccountProof(proof[c][1])
                       IN IF ~p.ok THEN Thrown(p.err)
                          ELSE LET root == VerifyStateRoot(blockHeader[c],
                                                           p.val.computedStateRoot)
                               IN IF root # NoError THEN Thrown(root)
                                  ELSE Returned(BuildResult(options[c], blockHeader[c],
                                                            resolved.val.rlpHeader, p.val))

\* a finished call ended as it would have ended alone, and used its own client
EndsAsAlone ==
  \A c \in Pair :
    /\ pc[c] = "done" =>
         /\ outcome[c] = OutcomeAlone(c)
         /\ outcome[c].error.from \in {"getBlock", "getProof"} =>
              outcome[c].error.name \in TransportErrors
    /\ \A i \in 1..Len(rpcLog[c]) : rpcLog[c][i].client = client[c]

\* a step changes what at most one call holds
OneCallPerStep ==
  \A c \in Pair, d \in Pair :
    c # d => (CallState(c)' = CallState(c) \/ CallState(d)' = CallState(d))

\* C20: with two calls in flight and their RPC round trips interleaved in
\* every order, each call ends with the outcome its own request and the
\* answers to its own RPC calls give when it runs alone, and no step of one
\* call changes anything the other call holds.
C20_ConcurrentCallsIndependent == []EndsAsAlone /\ [][OneCallPerStep]_vars

\* a call that started second has returned a result while the call that
\* started first, for a different request, is still waiting for its proof
C20_Witness ==
  /\ Returns(1)
  /\ pc[2] = "getProof"
  /\ client[2] < client[1]
  /\ options[1] # options[2]
  /\ blockHeader[1] # blockHeader[2]

(***************************************************************************)
(* Progress: every RPC call that was issued is eventually answered, by a   *)
(* response or by a rejection; nothing obliges a caller to start a call    *)
(***************************************************************************)
\* the answers the node may give, tabulated once per block number, per
\* fetched block and per slot
BlocksFor == [bn \in 0..MaxBlockNumber |-> BlockResponses(bn)]

RawHeadersFor ==
  [b \in UNION {BlockShapes(bn) : bn \in 0..MaxBlockNumber} |-> RawResponses(b)]

ProofsFor == [slot \in 0..MaxSlot |-> ProofResponses(toHexSized(slot, 32))]

\* the awaited getBlock settles
GetBlockSettles(c) ==
  \/ GetBlockRejected(c, TransportErrors)
  \/ GetBlockResolved(c, BlocksFor[options[c].blockNumber])

\* the awaited debug_getRawHeader settles
RawHeaderSettles(c) ==
  \/ RawHeaderResolved(c, RawHeadersFor[Without(blockHeader[c], "hash")])
  \/ RawHeaderRejected(c, RawHeaderErrors)

\* the awaited getProof settles
GetProofSettles(c) ==
  \/ GetProofRejected(c, TransportErrors)
  \/ GetProofResolved(c, ProofsFor[options[c].slot])

RpcCallsSettle ==
  \A c \in Calls :
    /\ WF_vars(GetBlockSettles(c))
    /\ WF_vars(RawHeaderSettles(c))
    /\ WF_vars(GetProofSettles(c))

SpecLive == Init /\ [][Next]_vars /\ RpcCallsSettle

TerminalStages == {"Complete", "BlockHashMismatch", "StateRootMismatch", "Failed"}

\* the terminal stage that goes with the outcome of a call
TerminalStageOf(c) ==
  CASE Returns(c) -> "Complete"
    [] Throws(c) /\ outcome[c].error.name = "BlockHashMismatchError" -> "BlockHashMismatch"
    [] Throws(c) /\ outcome[c].error.name = "StateRootMismatchError" -> "StateRootMismatch"
    [] Throws(c) -> "Failed"
    [] OTHER -> "none"

\* the call has ended, in one terminal outcome only
Ended(c) ==
  /\ pc[c] = "done"
  /\ Returns(c) \/ Throws(c)
  /\ Returns(c) <=> outcome[c].result # <<>>
  /\ Throws(c) <=> outcome[c].error # NoError
  /\ Cardinality({i \in 1..Len(trace[c]) : trace[c][i] \in TerminalStages}) = 1
  /\ trace[c][Len(trace[c])] = TerminalStageOf(c)

\* a call that has not ended has no outcome and has passed no terminal stage
InFlightHasNoOutcome ==
  \A c \in Calls :
    pc[c] # "done" =>
      /\ outcome[c] = Pending
      /\ \A i \in 1..Len(trace[c]) : trace[c][i] \notin TerminalStages

\* once a call has ended, its outcome and its stages stay as they are
OutcomeIsFinal ==
  \A c \in Calls :
    pc[c] = "done" => (pc'[c] = "done" /\ outcome'[c] = outcome[c] /\ trace'[c] = trace[c])

\* C21: if every issued RPC call is eventually answered, every call that was
\* started eventually ends, with a result (Complete), with the
\* BlockHashMismatch exit, with the StateRootMismatch exit or with a
\* propagated failure; it has exactly one of these outcomes and keeps it.
C21_EveryCallEnds ==
  /\ \A c \in Calls : (pc[c] # "idle") ~> Ended(c)
  /\ []InFlightHasNoOutcome
  /\ [][OutcomeIsFinal]_vars

\* a call has ended through the StateRootMismatch exit after all three RPC
\* calls were answered
C21_Witness ==
  \E c \in Calls :
    /\ pc[c] = "done"
    /\ TerminalStageOf(c) = "StateRootMismatch"
    /\ proof[c] # <<>>

====
